---- MODULE Spec2Model ----
(***************************************************************************)
(* Model of DimeTrack.py: the BudgetData ledger (two entry lists, whole-   *)
(* file JSON persistence, aggregations) and the BudgetTracker handlers     *)
(* that drive it.                                                          *)
(*                                                                         *)
(* Amounts are Python floats (IEEE-754 binary64).  A finite amount is the  *)
(* integer hi * 2^53 + lo with |lo| far below 2^52, which is enough to     *)
(* hold the small amounts, the amount 2^53 and every sum and difference of *)
(* a few of them exactly; Round rounds such an integer to the nearest      *)
(* double, ties to even, as the hardware addition does.                    *)
(***************************************************************************)
EXTENDS Integers, Sequences, FiniteSets, TLC

VARIABLES income_entries, expense_entries, file, now, faults, ret, warned, sum_impl,
          income_table, expense_table, cards, report, dialog, running

store_vars == <<income_entries, expense_entries, file, now, faults, ret, warned, sum_impl>>
ui_vars == <<income_table, expense_table, cards, report, dialog, running>>
vars == <<income_entries, expense_entries, file, now, faults, ret, warned, sum_impl,
          income_table, expense_table, cards, report, dialog, running>>

\* ------------------------------------------------------------------ bounds
MaxEntries == 3
MaxClock == 2
MaxFaults == 1

\* ------------------------------------------------------------------ floats
Fin(h, l) == [k |-> "fin", hi |-> h, lo |-> l]
NaN == [k |-> "nan", hi |-> 0, lo |-> 0]
Zero == Fin(0, 0)

IsNaN(a) == a.k = "nan"
IsNeg(a) == a.hi < 0 \/ (a.hi = 0 /\ a.lo < 0)
Neg(a) == IF IsNaN(a) THEN a ELSE Fin(0 - a.hi, 0 - a.lo)
Fabs(a) == IF IsNeg(a) THEN Neg(a) ELSE a

\* a >= b for finite a and b
FGe(a, b) == a.hi > b.hi \/ (a.hi = b.hi /\ a.lo >= b.lo)
\* Python's a <= 0 and a > 0: both False on NaN
FLeZero(a) == ~IsNaN(a) /\ (a.hi < 0 \/ (a.hi = 0 /\ a.lo <= 0))
FGtZero(a) == ~IsNaN(a) /\ (a.hi > 0 \/ (a.hi = 0 /\ a.lo > 0))

RECURSIVE Pow2Floor(_)
Pow2Floor(n) == IF n < 2 THEN 1 ELSE 2 * Pow2Floor(n \div 2)

\* spacing of the doubles around the non-negative integer hi * 2^53 + lo
Ulp(a) ==
    LET top == IF a.lo < 0 THEN a.hi - 1 ELSE a.hi
    IN  IF top <= 0 THEN 1 ELSE 2 * Pow2Floor(top)

\* nearest double to a non-negative integer, ties to the even significand
RoundMag(a) ==
    LET u == Ulp(a)
        r == a.lo % u
        down == a.lo - r
        up == down + u
    IN  IF r = 0 THEN a
        ELSE IF 2 * r < u THEN Fin(a.hi, down)
        ELSE IF 2 * r > u THEN Fin(a.hi, up)
        ELSE IF (down \div u) % 2 = 0 THEN Fin(a.hi, down)
        ELSE Fin(a.hi, up)

Round(a) == IF IsNeg(a) THEN Neg(RoundMag(Neg(a))) ELSE RoundMag(a)

FAdd(a, b) ==
    IF IsNaN(a) \/ IsNaN(b) THEN NaN
    ELSE Round(Fin(a.hi + b.hi, a.lo + b.lo))

FSub(a, b) == FAdd(a, Neg(b))


\* ------------------------------------------------------------------ strings
\* A Python str is a sequence of characters; "e_acute" stands for U+00E9 and
\* a chunk of plain printable ASCII ("2024-01-01") stands for its characters.
Backslash == "\\"
Quote == "\""

RECURSIVE lstrip(_)
lstrip(s) == IF s # <<>> /\ Head(s) = " " THEN lstrip(Tail(s)) ELSE s

RECURSIVE rstrip(_)
rstrip(s) ==
    IF s # <<>> /\ s[Len(s)] = " " THEN rstrip(SubSeq(s, 1, Len(s) - 1)) ELSE s

\* str.strip()
strip(s) == rstrip(lstrip(s))

\* ------------------------------------------------------------------ json
\* json.dump's string escaping (ensure_ascii): quote and backslash get a
\* backslash, a non-ASCII character becomes \uXXXX
EscapeChar(c) ==
    IF c = Quote THEN <<Backslash, Quote>>
    ELSE IF c = Backslash THEN <<Backslash, Backslash>>
    ELSE IF c = "e_acute" THEN <<Backslash, "u00e9">>
    ELSE <<c>>

RECURSIVE EncodeStr(_)
EncodeStr(s) == IF s = <<>> THEN <<>> ELSE EscapeChar(Head(s)) \o EncodeStr(Tail(s))

\* a decoder that does not know the \uXXXX escape
UnescapeChar_ascii_only(c) == c

UnescapeChar(c) == IF c = "u00e9" THEN "e_acute" ELSE c

\* json.load's scan of the inside of a string literal
RECURSIVE DecodeStr(_)
DecodeStr(t) ==
    IF t = <<>> THEN <<>>
    ELSE IF Head(t) = Backslash /\ Len(t) >= 2
         THEN <<UnescapeChar(t[2])>> \o DecodeStr(SubSeq(t, 3, Len(t)))
         ELSE <<Head(t)>> \o DecodeStr(Tail(t))

\* whether the scan of a string literal ends at its closing quote: no bare
\* quote inside, no backslash left without its character
RECURSIVE ScansClean(_)
ScansClean(t) ==
    IF t = <<>> THEN TRUE
    ELSE IF Head(t) = Backslash THEN Len(t) >= 2 /\ ScansClean(SubSeq(t, 3, Len(t)))
    ELSE Head(t) # Quote /\ ScansClean(Tail(t))

StrTok(s) == [t |-> "str", lit |-> "", hi |-> 0, lo |-> 0, chars |-> EncodeStr(s)]

\* float.__repr__ as json.dump emits it: NaN, or the shortest decimal that
\* reads back as the same double, always with a fraction part ("1.0")
NumTok(a) ==
    IF IsNaN(a) THEN [t |-> "num", lit |-> "NaN", hi |-> 0, lo |-> 0, chars |-> <<>>]
    ELSE [t |-> "num", lit |-> "float", hi |-> a.hi, lo |-> a.lo, chars |-> <<>>]

\* json.load of a number literal: NaN, or float() of the decimal
ParseNum(tok) == IF tok.lit = "NaN" THEN NaN ELSE Round(Fin(tok.hi, tok.lo))

Member(k, tok) == [key |-> k, tok |-> tok]

\* json.dump of one entry dict, in the dict's insertion order
DumpIncomeEntry(e) ==
    << Member("amount", NumTok(e.amount)), Member("label", StrTok(e.label)),
       Member("date", StrTok(e.date)), Member("timestamp", StrTok(e.timestamp)) >>

DumpExpenseEntry(e) ==
    << Member("amount", NumTok(e.amount)), Member("label", StrTok(e.label)),
       Member("category", StrTok(e.category)),
       Member("date", StrTok(e.date)), Member("timestamp", StrTok(e.timestamp)) >>

\* the value json.load gives the key k of an object
Lookup(members, k) == (CHOOSE i \in 1..Len(members) : members[i].key = k)

LoadIncomeEntry(m) ==
    [amount |-> ParseNum(m[Lookup(m, "amount")].tok),
     label |-> DecodeStr(m[Lookup(m, "label")].tok.chars),
     date |-> DecodeStr(m[Lookup(m, "date")].tok.chars),
     timestamp |-> DecodeStr(m[Lookup(m, "timestamp")].tok.chars)]

LoadExpenseEntry(m) ==
    [amount |-> ParseNum(m[Lookup(m, "amount")].tok),
     label |-> DecodeStr(m[Lookup(m, "label")].tok.chars),
     category |-> DecodeStr(m[Lookup(m, "category")].tok.chars),
     date |-> DecodeStr(m[Lookup(m, "date")].tok.chars),
     timestamp |-> DecodeStr(m[Lookup(m, "timestamp")].tok.chars)]

\* ------------------------------------------------------------------ the file
\* jtype: "object" (a JSON object), "array" (valid JSON, not an object),
\* "invalid" (not JSON: garbage), "truncated" (not JSON: what a failed write
\* left after open(..., 'w') had emptied the file)
NoFile == [exists |-> FALSE, jtype |-> "none", members |-> <<>>]
BadFile == [exists |-> TRUE, jtype |-> "invalid", members |-> <<>>]
CutFile == [exists |-> TRUE, jtype |-> "truncated", members |-> <<>>]
ArrayFile == [exists |-> TRUE, jtype |-> "array", members |-> <<>>]
ObjectFile(m) == [exists |-> TRUE, jtype |-> "object", members |-> m]

Top(k, items) == [key |-> k, items |-> items]

\* json.dump(data, f) of save_data's dict
json_dump(inc, exp) ==
    ObjectFile(<< Top("income_entries", [i \in 1..Len(inc) |-> DumpIncomeEntry(inc[i])]),
                  Top("expense_entries", [i \in 1..Len(exp) |-> DumpExpenseEntry(exp[i])]) >>)

HasKey(f, k) == \E i \in 1..Len(f.members) : f.members[i].key = k
Items(f, k) == f.members[CHOOSE i \in 1..Len(f.members) : f.members[i].key = k].items

\* data.get(k, [])
GetIncome(f) ==
    IF HasKey(f, "income_entries")
    THEN LET it == Items(f, "income_entries") IN [i \in 1..Len(it) |-> LoadIncomeEntry(it[i])]
    ELSE <<>>

GetExpense(f) ==
    IF HasKey(f, "expense_entries")
    THEN LET it == Items(f, "expense_entries") IN [i \in 1..Len(it) |-> LoadExpenseEntry(it[i])]
    ELSE <<>>

\* whether json.load reads the file to its end: it is JSON and every string
\* literal in it scans cleanly (JSONDecodeError otherwise)
Parses(f) ==
    /\ f.jtype \in {"object", "array"}
    /\ \A i \in 1..Len(f.members) : \A j \in 1..Len(f.members[i].items) :
         \A k \in 1..Len(f.members[i].items[j]) :
            ScansClean(f.members[i].items[j][k].tok.chars)

\* load_data without the exists() test and without the try: a missing or
\* unreadable file raises
load_data_unguarded(f) ==
    IF f.exists /\ Parses(f) /\ f.jtype = "object"
    THEN [income |-> GetIncome(f), expense |-> GetExpense(f), warned |-> FALSE,
          raised |-> FALSE]
    ELSE [income |-> <<>>, expense |-> <<>>, warned |-> FALSE, raised |-> TRUE]

\* load_data whose handler is "except json.JSONDecodeError": the
\* AttributeError of data.get on JSON that is no object leaves load_data
load_data_decode_errors_only(f) ==
    IF ~f.exists
    THEN [income |-> <<>>, expense |-> <<>>, warned |-> FALSE, raised |-> FALSE]
    ELSE IF Parses(f) /\ f.jtype = "object"
         THEN [income |-> GetIncome(f), expense |-> GetExpense(f), warned |-> FALSE,
               raised |-> FALSE]
         ELSE [income |-> <<>>, expense |-> <<>>, warned |-> f.jtype # "array",
               raised |-> f.jtype = "array"]

\* __init__ followed by load_data on the file f: the two lists of the fresh
\* object, whether "Error loading data" was printed, and whether an
\* exception left load_data (except Exception catches them all)
load_data(f) ==
    IF ~f.exists
    THEN [income |-> <<>>, expense |-> <<>>, warned |-> FALSE, raised |-> FALSE]
    ELSE IF Parses(f) /\ f.jtype = "object"
         THEN [income |-> GetIncome(f), expense |-> GetExpense(f), warned |-> FALSE,
               raised |-> FALSE]
         ELSE [income |-> <<>>, expense |-> <<>>, warned |-> TRUE, raised |-> FALSE]

\* open(data_file, 'w') and json.dump under the fault the disk gives:
\* "ok", "open_fails" (nothing written), "write_fails" (truncated, cut short)
Faults == {"ok", "open_fails", "write_fails"}
save_data(f, inc, exp, fault) ==
    IF fault = "ok" THEN json_dump(inc, exp)
    ELSE IF fault = "open_fails" THEN f
    ELSE CutFile


\* a save_data that catches and drops its errors
save_raises_swallowed(fault) == FALSE

\* whether save_data leaves by an exception: it has no handler of its own
save_raises(fault) == fault # "ok"

\* ------------------------------------------------------------------ lists
\* lst.pop(): the last element goes, whatever the index
ListDel_last(lst, index) == SubSeq(lst, 1, Len(lst) - 1)

\* del lst[index] with Python's indexing: 0-based, a negative index counts
\* from the end
ListDel(lst, index) ==
    LET p == IF index < 0 THEN Len(lst) + index + 1 ELSE index + 1
    IN  SubSeq(lst, 1, p - 1) \o SubSeq(lst, p + 1, Len(lst))

\* ------------------------------------------------------------------ totals
RECURSIVE SumPlain(_, _)
SumPlain(amounts, acc) ==
    IF amounts = <<>> THEN acc
    ELSE SumPlain(Tail(amounts), FAdd(acc, Head(amounts)))

\* sum() of CPython 3.12 and later: compensated (Neumaier) summation
cs_add(total, x) ==
    LET t == FAdd(total.hi, x)
        c == IF ~IsNaN(total.hi) /\ ~IsNaN(x) /\ FGe(Fabs(total.hi), Fabs(x))
             THEN FAdd(FSub(total.hi, t), x)
             ELSE FAdd(FSub(x, t), total.hi)
    IN  [hi |-> t, lo |-> FAdd(total.lo, c)]

RECURSIVE SumCompensated(_, _)
SumCompensated(amounts, total) ==
    IF amounts = <<>>
    THEN IF total.lo # Zero /\ ~IsNaN(total.lo) THEN FAdd(total.hi, total.lo) ELSE total.hi
    ELSE SumCompensated(Tail(amounts), cs_add(total, Head(amounts)))

\* sum(entry['amount'] for entry in entries), by the interpreter's sum()
PySum(entries, impl) ==
    LET amounts == [i \in 1..Len(entries) |-> entries[i].amount]
    IN  IF impl = "plain" THEN SumPlain(amounts, Zero)
        ELSE SumCompensated(amounts, [hi |-> Zero, lo |-> Zero])

get_total_income == PySum(income_entries, sum_impl)
get_total_expenses == PySum(expense_entries, sum_impl)
\* a balance that adds the expenses
get_balance_added == FAdd(get_total_income, get_total_expenses)

get_balance == FSub(get_total_income, get_total_expenses)

\* the dict of get_expenses_by_category as its items in insertion order
RECURSIVE ByCategory(_, _)
ByCategory(entries, categories) ==
    IF entries = <<>> THEN categories
    ELSE LET entry == Head(entries)
             cat == entry.category
             known == \E i \in 1..Len(categories) : categories[i].cat = cat
             with0 == IF known THEN categories
                      ELSE Append(categories, [cat |-> cat, amount |-> Zero])
             at == CHOOSE i \in 1..Len(with0) : with0[i].cat = cat
         IN  ByCategory(Tail(entries),
                        [with0 EXCEPT ![at].amount = FAdd(@, entry.amount)])

get_expenses_by_category == ByCategory(expense_entries, <<>>)

\* ------------------------------------------------------------------ inputs
One == Fin(0, 1)
Two53 == Fin(1, 0)
\* what the handlers hand to the store: float() results that pass amount <= 0
Salary == <<"S", "a", "l", Quote, "e_acute", Backslash>>
Gas == <<"G", "a", "s">>
Day == <<"2024-01-01">>
Food == <<"Food & Dining">>
Transportation == <<"Transportation">>
\* the arguments the handlers hand to the store: the amount is a float()
\* result that passed the amount <= 0 test, the label is stripped and not empty
IncomeInputs == { <<One, Salary, Day>>, <<NaN, Gas, Day>> }
ExpenseInputs ==
    { <<One, Gas, Food, Day>>, <<Two53, Gas, Food, Day>>,
      <<Two53, Salary, Transportation, Day>> }
\* datetime.now().isoformat() at the n-th reading of the clock
Timestamp(n) == <<"T", ToString(n)>>

IncomeEntry(amount, label, date, ts) ==
    [amount |-> amount, label |-> label, date |-> date, timestamp |-> ts]
ExpenseEntry(amount, label, category, date, ts) ==
    [amount |-> amount, label |-> label, category |-> category, date |-> date,
     timestamp |-> ts]

\* how the last call ended: "None", "True", "False" (the value returned) or
\* "raised" (an exception left it)
Ret(op, outcome) == [op |-> op, outcome |-> outcome]

\* the files a start can find: none, garbage, JSON that is no object, an
\* object without the two keys, an object with one key, a file of an earlier run
EarlierIncome == <<IncomeEntry(One, Salary, Day, <<"T", "old">>)>>
EarlierExpense == <<ExpenseEntry(One, Gas, Food, Day, <<"T", "old">>)>>
InitFiles ==
    { NoFile, BadFile, ArrayFile, ObjectFile(<<>>),
      ObjectFile(<<Top("income_entries", <<DumpIncomeEntry(EarlierIncome[1])>>)>>),
      json_dump(EarlierIncome, EarlierExpense) }


\* ------------------------------------------------------------------ display
\* refresh_tables: one row per entry, its delete button bound to idx=i
TableOf(entries) == [i \in 1..Len(entries) |-> [idx |-> i - 1, entry |-> entries[i]]]

\* update_summary_cards: the three values written to the cards
CardsOf(inc, exp, impl) ==
    [income |-> PySum(inc, impl), expenses |-> PySum(exp, impl),
     balance |-> FSub(PySum(inc, impl), PySum(exp, impl))]

\* Python's a / b * 100 on floats, kept as the quotient it is taken of: a
\* float divided by zero raises ZeroDivisionError
Percent(a, b) ==
    IF b = Zero THEN [k |-> "ZeroDivisionError", num |-> a, den |-> b]
    ELSE [k |-> "percent", num |-> a, den |-> b]

\* the int 0 of the else branches
IntZero == [k |-> "int_zero", num |-> Zero, den |-> Zero]

\* update_report: (balance/total_income*100) if total_income > 0 else 0
savings_rate(total_income, balance) ==
    IF FGtZero(total_income) THEN Percent(balance, total_income) ELSE IntZero

\* update_report: the share of one category,
\* (amount / total_expenses * 100) if total_expenses > 0 else 0
percentage(amount, total_expenses) ==
    IF FGtZero(total_expenses) THEN Percent(amount, total_expenses) ELSE IntZero

\* update_report: the values the report text is made of; the lines of the
\* categories are kept as a set, the order sorted() gives them is not modelled
ReportOf(inc, exp, impl) ==
    LET total_income == PySum(inc, impl)
        total_expenses == PySum(exp, impl)
        balance == FSub(total_income, total_expenses)
        by_cat == ByCategory(exp, <<>>)
    IN  [total_income |-> total_income,
         total_expenses |-> total_expenses,
         balance |-> balance,
         savings_rate |-> savings_rate(total_income, balance),
         categories |-> { [cat |-> by_cat[i].cat, amount |-> by_cat[i].amount,
                           percentage |-> percentage(by_cat[i].amount, total_expenses)] :
                          i \in 1..Len(by_cat) }]

\* ------------------------------------------------------------------ start
\* BudgetTracker.__init__: BudgetData() on the file found, then refresh_tables
Init ==
    /\ file \in InitFiles
    /\ sum_impl \in {"plain", "compensated"}
    /\ income_entries = load_data(file).income
    /\ expense_entries = load_data(file).expense
    /\ warned = load_data(file).warned
    /\ now = 0
    /\ faults = 0
    /\ ret = Ret("init", IF load_data(file).raised THEN "raised" ELSE "None")
    /\ income_table = TableOf(income_entries)
    /\ expense_table = TableOf(expense_entries)
    /\ cards = CardsOf(income_entries, expense_entries, sum_impl)
    /\ report = ReportOf(income_entries, expense_entries, sum_impl)
    /\ dialog = <<"none">>
    /\ running = TRUE

\* the disk: a write either works or fails, at most MaxFaults times in a run
Disk(fault) ==
    /\ fault \in Faults
    /\ IF fault = "ok" THEN faults' = faults
       ELSE faults < MaxFaults /\ faults' = faults + 1

\* ------------------------------------------------------------------ BudgetData
\* add_income that puts the new entry in front: insert(0, entry)
add_income_prepend(amount, label, date, fault) ==
    /\ Len(income_entries) + Len(expense_entries) < MaxEntries
    /\ now < MaxClock
    /\ now' = now + 1
    /\ income_entries' = <<IncomeEntry(amount, label, date, Timestamp(now'))>> \o income_entries
    /\ Disk(fault)
    /\ file' = save_data(file, income_entries', expense_entries, fault)
    /\ ret' = Ret("add_income", IF save_raises(fault) THEN "raised" ELSE "None")
    /\ UNCHANGED <<expense_entries, warned, sum_impl>>

\* add_income: append, save_data, and no return statement
add_income(amount, label, date, fault) ==
    /\ Len(income_entries) + Len(expense_entries) < MaxEntries
    /\ now < MaxClock
    /\ now' = now + 1
    /\ income_entries' = Append(income_entries, IncomeEntry(amount, label, date, Timestamp(now')))
    /\ Disk(fault)
    /\ file' = save_data(file, income_entries', expense_entries, fault)
    /\ ret' = Ret("add_income", IF save_raises(fault) THEN "raised" ELSE "None")
    /\ UNCHANGED <<expense_entries, warned, sum_impl>>

\* add_expense that takes its entry back when save_data raises
add_expense_rollback(amount, label, category, date, fault) ==
    /\ Len(income_entries) + Len(expense_entries) < MaxEntries
    /\ now < MaxClock
    /\ now' = now + 1
    /\ expense_entries' =
           IF save_raises(fault) THEN expense_entries
           ELSE Append(expense_entries,
                       ExpenseEntry(amount, label, category, date, Timestamp(now')))
    /\ Disk(fault)
    /\ file' = save_data(file, income_entries, expense_entries', fault)
    /\ ret' = Ret("add_expense", IF save_raises(fault) THEN "raised" ELSE "None")
    /\ UNCHANGED <<income_entries, warned, sum_impl>>

\* add_expense: append, save_data, and no return statement
add_expense(amount, label, category, date, fault) ==
    /\ Len(income_entries) + Len(expense_entries) < MaxEntries
    /\ now < MaxClock
    /\ now' = now + 1
    /\ expense_entries' =
           Append(expense_entries, ExpenseEntry(amount, label, category, date, Timestamp(now')))
    /\ Disk(fault)
    /\ file' = save_data(file, income_entries, expense_entries', fault)
    /\ ret' = Ret("add_expense", IF save_raises(fault) THEN "raised" ELSE "None")
    /\ UNCHANGED <<income_entries, warned, sum_impl>>

remove_expense(index, fault) ==
    /\ IF 0 <= index /\ index < Len(expense_entries)
       THEN /\ expense_entries' = ListDel(expense_entries, index)
            /\ Disk(fault)
            /\ file' = save_data(file, income_entries, expense_entries', fault)
            /\ ret' = Ret("remove_expense", IF save_raises(fault) THEN "raised" ELSE "True")
       ELSE /\ fault = "ok"
            /\ ret' = Ret("remove_expense", "False")
            /\ UNCHANGED <<expense_entries, file, faults>>
    /\ UNCHANGED <<income_entries, now, warned, sum_impl>>

\* remove_income whose test forgot the lower bound: index < len only
remove_income_no_lower_bound(index, fault) ==
    /\ IF index < Len(income_entries) /\ 0 - index <= Len(income_entries)
       THEN /\ income_entries' = ListDel(income_entries, index)
            /\ Disk(fault)
            /\ file' = save_data(file, income_entries', expense_entries, fault)
            /\ ret' = Ret("remove_income", IF save_raises(fault) THEN "raised" ELSE "True")
       ELSE /\ fault = "ok"
            /\ ret' = Ret("remove_income", "False")
            /\ UNCHANGED <<income_entries, file, faults>>
    /\ UNCHANGED <<expense_entries, now, warned, sum_impl>>

\* remove_income without its save_data call
remove_income_unsaved(index, fault) ==
    /\ IF 0 <= index /\ index < Len(income_entries)
       THEN /\ income_entries' = ListDel(income_entries, index)
            /\ Disk(fault)
            /\ ret' = Ret("remove_income", IF save_raises(fault) THEN "raised" ELSE "True")
            /\ UNCHANGED file
       ELSE /\ fault = "ok"
            /\ ret' = Ret("remove_income", "False")
            /\ UNCHANGED <<income_entries, file, faults>>
    /\ UNCHANGED <<expense_entries, now, warned, sum_impl>>

remove_income(index, fault) ==
    /\ IF 0 <= index /\ index < Len(income_entries)
       THEN /\ income_entries' = ListDel(income_entries, index)
            /\ Disk(fault)
            /\ file' = save_data(file, income_entries', expense_entries, fault)
            /\ ret' = Ret("remove_income", IF save_raises(fault) THEN "raised" ELSE "True")
       ELSE /\ fault = "ok"
            /\ ret' = Ret("remove_income", "False")
            /\ UNCHANGED <<income_entries, file, faults>>
    /\ UNCHANGED <<expense_entries, now, warned, sum_impl>>

\* a constructor that, finding a file it cannot use, writes an empty ledger
\* over it
BudgetData_init_resets_file ==
    /\ income_entries' = load_data(file).income
    /\ expense_entries' = load_data(file).expense
    /\ warned' = load_data(file).warned
    /\ ret' = Ret("init", IF load_data(file).raised THEN "raised" ELSE "None")
    /\ file' = IF load_data(file).warned THEN json_dump(<<>>, <<>>) ELSE file
    /\ UNCHANGED <<now, faults, sum_impl>>

\* BudgetData(data_file): a fresh object on the same path
BudgetData_init ==
    /\ income_entries' = load_data(file).income
    /\ expense_entries' = load_data(file).expense
    /\ warned' = load_data(file).warned
    /\ ret' = Ret("init", IF load_data(file).raised THEN "raised" ELSE "None")
    /\ UNCHANGED <<file, now, faults, sum_impl>>

\* the indexes a caller may pass: every position, one before, one past
Indexes == (0 - 1) .. MaxEntries

AddIncome ==
    \E in \in IncomeInputs, fault \in Faults :
        add_income(in[1], in[2], in[3], fault) /\ UNCHANGED ui_vars
AddExpense ==
    \E in \in ExpenseInputs, fault \in Faults :
        add_expense(in[1], in[2], in[3], in[4], fault) /\ UNCHANGED ui_vars
RemoveExpense ==
    \E index \in Indexes, fault \in Faults : remove_expense(index, fault) /\ UNCHANGED ui_vars
RemoveIncome ==
    \E index \in Indexes, fault \in Faults : remove_income(index, fault) /\ UNCHANGED ui_vars
Restart == BudgetData_init /\ UNCHANGED ui_vars

Next == AddIncome \/ AddExpense \/ RemoveExpense \/ RemoveIncome \/ Restart

Spec == Init /\ [][Next]_vars


\* ------------------------------------------------------------------ BudgetTracker
\* float(text) of the amount field: the value, or ValueError
float_of(text) ==
    IF text = "1" THEN [ok |-> TRUE, value |-> One]
    ELSE IF text = "9007199254740992" THEN [ok |-> TRUE, value |-> Two53]
    ELSE IF text = "0" THEN [ok |-> TRUE, value |-> Zero]
    ELSE IF text = "-1" THEN [ok |-> TRUE, value |-> Fin(0, 0 - 1)]
    ELSE IF text = "nan" THEN [ok |-> TRUE, value |-> NaN]
    ELSE [ok |-> FALSE, value |-> Zero]

\* the test of the handlers without "if not label"
Rejected_amount_only(label_text, amount_text) ==
    \/ ~float_of(amount_text).ok
    \/ FLeZero(float_of(amount_text).value)

\* the test before QMessageBox.critical: a blank label, an amount that is
\* no number, amount <= 0
Rejected(label_text, amount_text) ==
    \/ strip(label_text) = <<>>
    \/ ~float_of(amount_text).ok
    \/ FLeZero(float_of(amount_text).value)

\* str(e) of the ValueError the handler raises, in the order of its tests
\* (what is "income" or "expense")
ValueError_of(what, label_text, amount_text) ==
    IF strip(label_text) = <<>> THEN <<"Please enter a description for the", what>>
    ELSE IF ~float_of(amount_text).ok THEN <<"could not convert string to float", amount_text>>
    ELSE <<what, "must be greater than zero.">>

\* refresh_tables with its update_summary_cards and update_report
refresh_tables ==
    /\ income_table' = TableOf(income_entries')
    /\ expense_table' = TableOf(expense_entries')
    /\ cards' = CardsOf(income_entries', expense_entries', sum_impl)
    /\ report' = ReportOf(income_entries', expense_entries', sum_impl)

\* an exception that leaves a slot: the handler is cut short, its widgets
\* stay as they were, and the process either goes on with the event loop (an
\* exception hook is in place) or is ended by the binding
Escaped ==
    /\ running' \in BOOLEAN
    /\ UNCHANGED <<income_table, expense_table, cards, report, dialog>>

\* BudgetTracker.add_income: a rejected input shows the error box and touches
\* nothing; a save that raises leaves the handler before refresh_tables
ui_add_income(label_text, amount_text, date, fault) ==
    /\ running
    /\ IF Rejected(label_text, amount_text)
       THEN /\ fault = "ok"
            /\ dialog' = ValueError_of("income", label_text, amount_text)
            /\ UNCHANGED <<store_vars, income_table, expense_table, cards, report, running>>
       ELSE /\ add_income(float_of(amount_text).value, strip(label_text), date, fault)
            /\ IF save_raises(fault)
               THEN Escaped
               ELSE refresh_tables /\ dialog' = <<"information">> /\ UNCHANGED running

ui_add_expense(label_text, amount_text, category, date, fault) ==
    /\ running
    /\ IF Rejected(label_text, amount_text)
       THEN /\ fault = "ok"
            /\ dialog' = ValueError_of("expense", label_text, amount_text)
            /\ UNCHANGED <<store_vars, income_table, expense_table, cards, report, running>>
       ELSE /\ add_expense(float_of(amount_text).value, strip(label_text), category, date,
                           fault)
            /\ IF save_raises(fault)
               THEN Escaped
               ELSE refresh_tables /\ dialog' = <<"information">> /\ UNCHANGED running

\* BudgetTracker.delete_income behind the button of a table row, answered Yes
\* (answered No, the handler changes nothing); a save that raises leaves the
\* handler before refresh_tables
ui_delete_income(row, fault) ==
    /\ running
    /\ row \in 1..Len(income_table)
    /\ remove_income(income_table[row].idx, fault)
    /\ IF ret'.outcome = "raised"
       THEN Escaped
       ELSE refresh_tables /\ dialog' = <<"question">> /\ UNCHANGED running

ui_delete_expense(row, fault) ==
    /\ running
    /\ row \in 1..Len(expense_table)
    /\ remove_expense(expense_table[row].idx, fault)
    /\ IF ret'.outcome = "raised"
       THEN Escaped
       ELSE refresh_tables /\ dialog' = <<"question">> /\ UNCHANGED running

\* main(): the application started again on the same file
ui_start ==
    /\ BudgetData_init
    /\ refresh_tables
    /\ dialog' = <<"none">>
    /\ running' = TRUE

LabelTexts == { <<" ", " ">>, <<" ", "G", "a", "s", " ">> }
AmountTexts == {"abc", "0", "-1", "1", "nan"}
CATEGORIES == {Food, Transportation}

UiAddIncome ==
    \E label_text \in LabelTexts, amount_text \in AmountTexts, fault \in Faults :
        ui_add_income(label_text, amount_text, Day, fault)
UiAddExpense ==
    \E label_text \in LabelTexts, amount_text \in AmountTexts, category \in CATEGORIES,
       fault \in Faults :
        ui_add_expense(label_text, amount_text, category, Day, fault)
UiDeleteIncome == \E row \in 1..MaxEntries, fault \in Faults : ui_delete_income(row, fault)
UiDeleteExpense == \E row \in 1..MaxEntries, fault \in Faults : ui_delete_expense(row, fault)
UiStart == ui_start

NextUI == UiAddIncome \/ UiAddExpense \/ UiDeleteIncome \/ UiDeleteExpense \/ UiStart

SpecUI == Init /\ [][NextUI]_vars


\* ------------------------------------------------------------------ properties
Mutated(op) == op \in {"add_income", "add_expense", "remove_income", "remove_expense"}

\* C1: in every ledger the operations reach, writing the ledger with save_data
\* and constructing a fresh BudgetData on that file gives back the two lists:
\* the same entries in the same order with the same amount, label, category,
\* date and timestamp (a NaN amount is read back as NaN)
C1_RoundTrip ==
    LET written == save_data(file, income_entries, expense_entries, "ok")
        fresh == load_data(written)
    IN  /\ fresh.income = income_entries
        /\ fresh.expense = expense_entries
        /\ ~fresh.warned /\ ~fresh.raised

\* a fresh object, just loaded from a file the program wrote, holds an income
\* with the label that needs escaping and an expense of 2^53
C1_Witness ==
    /\ ret.op = "init" /\ now > 0
    /\ file = json_dump(income_entries, expense_entries)
    /\ \E i \in 1..Len(income_entries) : income_entries[i].label = Salary
    /\ \E i \in 1..Len(expense_entries) : expense_entries[i].amount = Two53

\* C2: when an add, or a remove of an existing position, has returned
\* normally, the file is the dump of the whole current ledger
C2_FileIsLedger ==
    (Mutated(ret.op) /\ ret.outcome \in {"None", "True"}) =>
        /\ file = json_dump(income_entries, expense_entries)
        /\ load_data(file).income = income_entries
        /\ load_data(file).expense = expense_entries

\* a remove has returned True after an earlier write had failed, and entries remain
C2_Witness ==
    /\ ret.op = "remove_income" /\ ret.outcome = "True"
    /\ faults > 0
    /\ Len(income_entries) + Len(expense_entries) > 0


InRange(index, lst) == 0 <= index /\ index < Len(lst)

\* C4: a remove_income or remove_expense call whose index is outside
\* [0, len), negative indexes and index = len included, returns False, raises
\* nothing and leaves both lists (and the file) as they were
C4_OutOfBoundsIsNoOp ==
    [][\A index \in Indexes, fault \in Faults :
         /\ (remove_income(index, fault) /\ ~InRange(index, income_entries)) =>
                /\ ret'.outcome = "False"
                /\ UNCHANGED <<income_entries, expense_entries, file>>
         /\ (remove_expense(index, fault) /\ ~InRange(index, expense_entries)) =>
                /\ ret'.outcome = "False"
                /\ UNCHANGED <<income_entries, expense_entries, file>>]_vars

\* a remove returned False on a list that holds entries
C4_Witness ==
    /\ ret.op = "remove_income" /\ ret.outcome = "False"
    /\ Len(income_entries) > 0

\* lst without the element at the 0-based position index, stated position by
\* position
IsWithout(new, old, index) ==
    /\ Len(new) = Len(old) - 1
    /\ \A j \in 1..Len(new) : new[j] = IF j <= index THEN old[j] ELSE old[j + 1]

\* C5: a remove_income or remove_expense call with 0 <= index < len takes out
\* the entry at that position and no other: the list is one shorter, earlier
\* entries stay, later entries move down by one, the other list is untouched,
\* and when the call returns (True) the file is the dump of the new ledger
C5_RemovesAddressedEntry ==
    [][\A index \in Indexes, fault \in Faults :
         /\ (remove_income(index, fault) /\ InRange(index, income_entries)) =>
                /\ IsWithout(income_entries', income_entries, index)
                /\ expense_entries' = expense_entries
                /\ (ret'.outcome # "raised") =>
                       /\ ret'.outcome = "True"
                       /\ file' = json_dump(income_entries', expense_entries')
         /\ (remove_expense(index, fault) /\ InRange(index, expense_entries)) =>
                /\ IsWithout(expense_entries', expense_entries, index)
                /\ income_entries' = income_entries
                /\ (ret'.outcome # "raised") =>
                       /\ ret'.outcome = "True"
                       /\ file' = json_dump(income_entries', expense_entries')]_vars

\* a remove returned True and left an entry behind it in the same list
C5_Witness ==
    /\ ret.op = "remove_income" /\ ret.outcome = "True"
    /\ Len(income_entries) > 0


AllEntries ==
    {income_entries[i] : i \in 1..Len(income_entries)}
        \cup {[amount |-> expense_entries[i].amount, label |-> expense_entries[i].label,
               date |-> expense_entries[i].date, timestamp |-> expense_entries[i].timestamp] :
              i \in 1..Len(expense_entries)}

\* C3: amounts that are not positive are never stored: in every state the
\* handlers reach, every entry of both lists has amount > 0
C3_StoredAmountsPositive == \A e \in AllEntries : FGtZero(e.amount)

\* exact integer sum of amounts that are all finite and below 2^53
RECURSIVE ExactLo(_)
ExactLo(entries) ==
    IF entries = <<>> THEN 0 ELSE Head(entries).amount.lo + ExactLo(Tail(entries))
Small(entries) ==
    \A i \in 1..Len(entries) : ~IsNaN(entries[i].amount) /\ entries[i].amount.hi = 0

\* C6: in every reachable ledger get_balance() is get_total_income() minus
\* get_total_expenses(); each total is the sum of its list's amounts (exactly
\* so when the amounts add without rounding); on an empty ledger all are 0
C6_BalanceIdentity ==
    /\ get_balance = FSub(PySum(income_entries, sum_impl), PySum(expense_entries, sum_impl))
    /\ Small(income_entries) => get_total_income = Fin(0, ExactLo(income_entries))
    /\ Small(expense_entries) => get_total_expenses = Fin(0, ExactLo(expense_entries))
    /\ (Small(income_entries) /\ Small(expense_entries)) =>
           get_balance = Fin(0, ExactLo(income_entries) - ExactLo(expense_entries))
    /\ (income_entries = <<>> /\ expense_entries = <<>>) =>
           (get_total_income = Zero /\ get_total_expenses = Zero /\ get_balance = Zero)

\* a ledger with income and expenses whose balance is 1
C6_Witness ==
    /\ Len(income_entries) > 0 /\ Len(expense_entries) > 0
    /\ Small(income_entries) /\ Small(expense_entries)
    /\ get_balance = One

CategoriesOf(entries) == {entries[i].category : i \in 1..Len(entries)}
OfCategory(entries, cat) == SelectSeq(entries, LAMBDA e : e.category = cat)

\* C7: with at least one expense, the amounts of get_expenses_by_category
\* add up to get_total_expenses() exactly, each category's amount is the sum
\* of the expenses of that category, and only categories that have an expense
\* appear
C7_BreakdownSumsToTotal ==
    expense_entries # <<>> =>
        LET by == get_expenses_by_category
        IN  /\ PySum(by, sum_impl) = get_total_expenses
            /\ {by[i].cat : i \in 1..Len(by)} = CategoriesOf(expense_entries)
            /\ \A i \in 1..Len(by) :
                 by[i].amount =
                   SumPlain([j \in 1..Len(OfCategory(expense_entries, by[i].cat)) |->
                               OfCategory(expense_entries, by[i].cat)[j].amount], Zero)

\* C8: a BudgetData constructed where no file exists has two empty lists and
\* totals 0, the constructor raises nothing, and it leaves the file absent
C8_MissingFileStartup ==
    /\ [](  (ret.op = "init" /\ ~file.exists) =>
               /\ income_entries = <<>> /\ expense_entries = <<>>
               /\ get_total_income = Zero /\ get_total_expenses = Zero
               /\ ret.outcome # "raised")
    /\ [][(ret'.op = "init" /\ ~file.exists) => ~file'.exists]_vars

\* a fresh object constructed, after an add, on a path that still has no file
C8_Witness == ret.op = "init" /\ ~file.exists /\ now > 0

\* C9: a BudgetData constructed on a file that exists but is not JSON, or is
\* JSON but no object, has two empty lists, has printed the warning, and the
\* constructor raised nothing
C9_MalformedFileStartup ==
    (ret.op = "init" /\ file.exists /\ file.jtype \in {"invalid", "truncated", "array"}) =>
        /\ income_entries = <<>> /\ expense_entries = <<>>
        /\ warned
        /\ ret.outcome # "raised"

\* a fresh object constructed on a file that a failed write had cut short
C9_Witness == ret.op = "init" /\ file = CutFile /\ now > 0

\* C10: whenever the write inside add_income, add_expense, remove_income or
\* remove_expense fails, the call ends by raising; a call that returns a value
\* has written the file
C10_FailedSaveRaises ==
    [][ /\ (faults' # faults) => ret'.outcome = "raised"
        /\ (ret'.outcome = "raised") => faults' # faults ]_vars

\* an add ended by raising
C10_Witness == ret.op = "add_income" /\ ret.outcome = "raised"

\* C11: a label that is empty after strip() is rejected before anything is
\* changed: the add handlers answer it with the error box asking for a
\* description and leave both lists and the file as they were; and in every
\* state every stored entry has a label that is non-empty after strip()
\* (a step of an add handler either leaves ret as it was or sets ret.op to
\* the add it called, so only such steps need to be looked at)
C11_BlankLabelRejected ==
    /\ [](\A e \in AllEntries : strip(e.label) # <<>>)
    /\ [][ (ret' = ret \/ ret'.op \in {"add_income", "add_expense"}) =>
            \A label_text \in {l \in LabelTexts : strip(l) = <<>>}, fault \in Faults,
               amount_text \in AmountTexts :
              /\ ui_add_income(label_text, amount_text, Day, fault) =>
                    /\ dialog' = <<"Please enter a description for the", "income">>
                    /\ UNCHANGED <<income_entries, expense_entries, file>>
              /\ \A category \in CATEGORIES :
                    ui_add_expense(label_text, amount_text, category, Day, fault) =>
                        /\ dialog' = <<"Please enter a description for the", "expense">>
                        /\ UNCHANGED <<income_entries, expense_entries, file>> ]_vars

\* a blank description was just refused for an expense while the ledger holds
\* entries of both kinds
C11_Witness ==
    /\ dialog = <<"Please enter a description for the", "expense">>
    /\ income_entries # <<>> /\ expense_entries # <<>>

\* the list new is the list old with one entry, stamped with the clock of
\* this call, added behind its last
Appended(new, old) ==
    /\ Len(new) = Len(old) + 1
    /\ SubSeq(new, 1, Len(old)) = old
    /\ new[Len(new)].timestamp = Timestamp(now')

\* C12 as stated: an add that succeeds puts the new entry behind the last
\* (the entries before it keep position and value, the other list is
\* unchanged, the length grows by one), writes the file, and returns the
\* position of the new entry
C12_AddReturnsPosition ==
    [][ /\ (ret'.op = "add_income" /\ ret'.outcome # "raised") =>
              /\ Appended(income_entries', income_entries)
              /\ expense_entries' = expense_entries
              /\ file' = json_dump(income_entries', expense_entries')
              /\ ret'.outcome = ToString(Len(income_entries') - 1)
        /\ (ret'.op = "add_expense" /\ ret'.outcome # "raised") =>
              /\ Appended(expense_entries', expense_entries)
              /\ income_entries' = income_entries
              /\ file' = json_dump(income_entries', expense_entries')
              /\ ret'.outcome = ToString(Len(expense_entries') - 1) ]_vars

\* C12, amended: an add that succeeds puts the new entry behind the last (the
\* entries before it keep position and value, the other list is unchanged,
\* the length grows by one), writes the file, and returns None: the position
\* of the new entry is the new length less one, and no call tells it
C12_AddAppendsAndSaves ==
    [][ /\ (ret'.op = "add_income" /\ ret'.outcome # "raised") =>
              /\ Appended(income_entries', income_entries)
              /\ expense_entries' = expense_entries
              /\ file' = json_dump(income_entries', expense_entries')
              /\ ret'.outcome = "None"
        /\ (ret'.op = "add_expense" /\ ret'.outcome # "raised") =>
              /\ Appended(expense_entries', expense_entries)
              /\ income_entries' = income_entries
              /\ file' = json_dump(income_entries', expense_entries')
              /\ ret'.outcome = "None" ]_vars

\* an income was just added behind another one, next to an expense
C12_Witness ==
    /\ ret = Ret("add_income", "None")
    /\ Len(income_entries) >= 2 /\ expense_entries # <<>>
    /\ income_entries[Len(income_entries)].timestamp = Timestamp(now)

\* C13: in every state the savings rate of the report is balance /
\* total_income * 100 when the total income is not zero and the int 0 when it
\* is zero, and neither it nor the share of a category is a division by zero
C13_SavingsRateGuard ==
    /\ report.total_income # Zero =>
            report.savings_rate = [k |-> "percent", num |-> report.balance,
                                   den |-> report.total_income]
    /\ report.total_income = Zero => report.savings_rate = IntZero
    /\ report.savings_rate.k # "ZeroDivisionError"
    /\ \A c \in report.categories : c.percentage.k # "ZeroDivisionError"

\* what the call that just ended did to the two lists, whether or not its
\* save_data raised: an add put its entry behind the last, a remove took one
\* entry out, and the other list is as it was
MemoryHasMutation ==
    /\ ret'.op = "add_income" =>
            Appended(income_entries', income_entries) /\ expense_entries' = expense_entries
    /\ ret'.op = "add_expense" =>
            Appended(expense_entries', expense_entries) /\ income_entries' = income_entries
    /\ ret'.op = "remove_income" =>
            /\ \E index \in 0..(Len(income_entries) - 1) :
                    IsWithout(income_entries', income_entries, index)
            /\ expense_entries' = expense_entries
    /\ ret'.op = "remove_expense" =>
            /\ \E index \in 0..(Len(expense_entries) - 1) :
                    IsWithout(expense_entries', expense_entries, index)
            /\ income_entries' = income_entries

\* C14 as stated: a mutation whose save failed is in the in-memory lists all
\* the same while the file is what it was before the call (the last state
\* saved with success); a mutation whose save succeeds leaves the file equal
\* to the dump of the whole in-memory ledger
C14_FileKeepsLastSave ==
    [][ /\ (Mutated(ret'.op) /\ ret'.outcome = "raised") =>
              MemoryHasMutation /\ file' = file
        /\ (Mutated(ret'.op) /\ ret'.outcome \in {"None", "True"}) =>
              MemoryHasMutation /\ file' = json_dump(income_entries', expense_entries') ]_vars

\* C14, amended: a mutation whose save failed is in the in-memory lists all
\* the same, and the file is either what it was before the call (open
\* failed) or cut short and no longer JSON (the write failed after open had
\* emptied it); a mutation whose save succeeds leaves the file equal to the
\* dump of the whole in-memory ledger, the mutations of failed saves included
C14_MemoryAuthoritative ==
    [][ /\ (Mutated(ret'.op) /\ ret'.outcome = "raised") =>
              MemoryHasMutation /\ (file' = file \/ file' = CutFile)
        /\ (Mutated(ret'.op) /\ ret'.outcome \in {"None", "True"}) =>
              MemoryHasMutation /\ file' = json_dump(income_entries', expense_entries') ]_vars

\* an expense was just added and saved after the save of an earlier add had
\* failed, and the file holds both entries
C14_Witness ==
    /\ ret = Ret("add_expense", "None")
    /\ faults > 0
    /\ Len(income_entries) + Len(expense_entries) = now
    /\ now >= 2
    /\ file = json_dump(income_entries, expense_entries)

\* every row of the table shows the entry that stands, in the list, at the
\* position its delete button is bound to
RowsMatch(table, entries) ==
    \A row \in 1..Len(table) :
        /\ InRange(table[row].idx, entries)
        /\ entries[table[row].idx + 1] = table[row].entry

Unparsable(f) == f.exists /\ ~(Parses(f) /\ f.jtype = "object")

\* C16: a start that finds a file it cannot parse takes nothing from it and
\* leaves it as it is; a removal that fails (index out of range) leaves it as
\* it is too, the totals being plain reads; from that start on the lists
\* change only by the entry a call appends or removes, and an add whose save
\* succeeds while the file is still unparsable replaces it by the dump of the
\* in-memory ledger, which therefore holds only entries added since the start
C16_UnparsableFileFate ==
    /\ []((ret.op = "init" /\ Unparsable(file)) =>
            warned /\ income_entries = <<>> /\ expense_entries = <<>>)
    /\ [][ /\ (ret'.op = "init" /\ Unparsable(file)) => file' = file
           /\ (Unparsable(file) /\ ret'.outcome = "False") =>
                 /\ file' = file
                 /\ income_entries' = income_entries /\ expense_entries' = expense_entries
           /\ (warned /\ Mutated(ret'.op) /\ ret'.outcome # "False") => MemoryHasMutation
           /\ (warned /\ Unparsable(file) /\ ret'.op \in {"add_income", "add_expense"}
                 /\ ret'.outcome = "None") =>
                 file' = json_dump(income_entries', expense_entries') ]_vars

\* after a start on an unparsable file, an income was added and saved; the
\* file now holds this one entry and nothing that was added before the start
C16_Witness ==
    /\ warned /\ ret = Ret("add_income", "None")
    /\ now >= 2
    /\ expense_entries = <<>>
    /\ Len(income_entries) = 1 /\ income_entries[1].timestamp = Timestamp(now)
    /\ file = json_dump(income_entries, expense_entries)

====
